---- MODULE Spec2Model ----
(***************************************************************************)
(* The customer-churn notebook (MLOps/DEPI_MLOps .ipynb) as a state        *)
(* machine.  The notebook is a top-to-bottom script of five code cells;    *)
(* every statement of a cell is one action, pc names the statement that    *)
(* runs next, and an exception raised by a statement stops the run         *)
(* (pc = "halted").  The database table is the input; the outcomes of the  *)
(* library and service calls the notebook makes (the driver, the solver,   *)
(* the seeded shuffle, the tracking and registry services) are chosen      *)
(* nondeterministically among the outcomes those calls can have.           *)
(***************************************************************************)
EXTENDS Integers, Sequences, FiniteSets, TLC

\* Largest number of rows of the database table.
MaxRows == 3

\* LogisticRegression(max_iter=1000)
max_iter == 1000

\* SQL NULL, read by pandas as a missing value (None / NaN).
NULL == "<NA>"

-----------------------------------------------------------------------------
(* The input: the table [dbo].[telecom_customer_churn].                    *)

\* The categorical columns the notebook one-hot encodes.  The notebook lists
\* twenty; the model keeps two of them, in the order of the list.
categorical_columns == <<"Gender", "Contract">>

\* The columns of the table, in the order SELECT * returns them.
TableColumns == <<"Customer_ID", "Gender", "Contract", "Customer_Status">>

StatusValues == {"Churned", "Stayed", "Joined"}
ContractValues == {"Month-to-Month", "One Year", "Two Year"}

\* Python's order of the category values (str comparison, by code point).
ValueOrder == <<"Female", "Male", "Month-to-Month", "One Year", "Two Year">>

Range(s) == {s[i] : i \in DOMAIN s}

Rank(v) == CHOOSE i \in DOMAIN ValueOrder : ValueOrder[i] = v

\* The rows the preprocessing is explored on (Customer_ID, the key, is the
\* row's number): every contract type, or none, with every status, and a row
\* of the other gender.
FullRows ==
    {[Gender |-> "Female", Contract |-> k, Customer_Status |-> s] :
        k \in ContractValues \cup {NULL}, s \in StatusValues}
    \cup {[Gender |-> "Male", Contract |-> "Month-to-Month", Customer_Status |-> "Stayed"]}

\* The rows of the table the training run is explored on: complete rows of
\* two statuses and two contract types.
SmallRows ==
    {[Gender |-> "Female", Contract |-> k, Customer_Status |-> s] :
        k \in {"Month-to-Month", "One Year"}, s \in {"Churned", "Stayed"}}

\* The table lacking one column the notebook names.
Lacking ==
    {SelectSeq(TableColumns, LAMBDA c : c # m) :
        m \in {"Customer_ID", "Contract", "Customer_Status"}}

RowOf(cols, i, f) ==
    [c \in Range(cols) |-> IF c = "Customer_ID" THEN "ID" \o ToString(i) ELSE f[c]]

\* The table with the given columns whose i-th row has the fields fs[i].
Table(cols, fs) ==
    [columns |-> cols, rows |-> [i \in DOMAIN fs |-> RowOf(cols, i, fs[i])]]

-----------------------------------------------------------------------------
(* pandas.  A DataFrame is its column labels, in order, and its rows, in    *)
(* order; a row carries its index label idx and its cells v.               *)

NoFrame == [columns |-> <<>>, rows |-> <<>>]

Columns(d) == Range(d.columns)

\* pd.read_sql: the result set with a RangeIndex 0..n-1.
ReadSql(t) ==
    [columns |-> t.columns,
     rows |-> [i \in DOMAIN t.rows |-> [idx |-> i - 1, v |-> t.rows[i]]]]

IsComplete(v) == \A c \in DOMAIN v : v[c] # NULL

\* df.dropna(): keeps the rows without a missing cell, and their index labels.
DropNa(d) ==
    [d EXCEPT !.rows = SelectSeq(d.rows, LAMBDA r : IsComplete(r.v))]

\* A label that is 1 for every status but 'Stayed'.
LabelNotStayed(x) == IF x # "Stayed" THEN 1 ELSE 0

\* lambda x: 1 if x == 'Churned' else 0
Label(x) == IF x = "Churned" THEN 1 ELSE 0

\* df[name] = df[src].apply(f), name a new column: appended as the last column.
AssignApplied(d, name, src) ==
    [columns |-> Append(d.columns, name),
     rows |-> [i \in DOMAIN d.rows |->
                 [idx |-> d.rows[i].idx,
                  v |-> [c \in Columns(d) \cup {name} |->
                           IF c = name THEN Label(d.rows[i].v[src]) ELSE d.rows[i].v[c]]]]]

\* The sequence of the elements of S in Python's order.
RECURSIVE Sorted(_)
Sorted(S) ==
    IF S = {} THEN <<>>
    ELSE LET m == CHOOSE x \in S : \A z \in S : Rank(x) <= Rank(z)
         IN <<m>> \o Sorted(S \ {m})

\* The categories get_dummies finds in column c: the values present, sorted.
Levels(d, c) == Sorted({d.rows[i].v[c] : i \in DOMAIN d.rows})

\* An expansion that keeps every category (drop_first ignored).
KeptAll(levels, drop_first) == levels

\* The categories that get an indicator column (drop_first): all but the first.
Kept(levels, drop_first) ==
    IF levels = <<>> THEN <<>> ELSE IF drop_first THEN Tail(levels) ELSE levels

\* The indicator columns of column c over the given categories: prefix_level.
Indicators(c, levels) ==
    [j \in DOMAIN levels |-> [name |-> c \o "_" \o levels[j], col |-> c, level |-> levels[j]]]

RECURSIVE Flatten(_)
Flatten(ss) == IF ss = <<>> THEN <<>> ELSE Head(ss) \o Flatten(Tail(ss))

\* pd.get_dummies(d, columns=cols, drop_first=...) given the categories levelsOf[c]
\* of each encoded column: the columns not encoded, in their order, then the
\* indicator columns of each encoded column, in the order of cols.  An
\* indicator cell is written 1 or 0 (True/False or uint8, by pandas version).
Encode(d, cols, levelsOf, drop_first) ==
    LET rest == SelectSeq(d.columns, LAMBDA c : c \notin Range(cols))
        ind == Flatten([k \in DOMAIN cols |-> Indicators(cols[k], Kept(levelsOf[cols[k]], drop_first))])
        names == [j \in DOMAIN ind |-> ind[j].name]
        of(n) == CHOOSE e \in Range(ind) : e.name = n
    IN [columns |-> rest \o names,
        rows |-> [i \in DOMAIN d.rows |->
                    [idx |-> d.rows[i].idx,
                     v |-> [n \in Range(rest) \cup Range(names) |->
                              IF n \in Range(rest) THEN d.rows[i].v[n]
                              ELSE IF d.rows[i].v[of(n).col] = of(n).level THEN 1 ELSE 0]]]]

GetDummies(d, cols, drop_first) ==
    Encode(d, cols, [c \in Range(cols) |-> Levels(d, c)], drop_first)

\* d.drop(columns=names)
DropColumns(d, names) ==
    [columns |-> SelectSeq(d.columns, LAMBDA c : c \notin names),
     rows |-> [i \in DOMAIN d.rows |->
                 [idx |-> d.rows[i].idx,
                  v |-> [c \in Columns(d) \ names |-> d.rows[i].v[c]]]]]

\* d[name]: the column as a Series, index label and value per row.
Column(d, name) ==
    [i \in DOMAIN d.rows |-> [idx |-> d.rows[i].idx, val |-> d.rows[i].v[name]]]

-----------------------------------------------------------------------------
(* scikit-learn.                                                            *)

\* ceil(0.3 * n): the size of the test partition (test_size=0.3).  The
\* floating-point product rounds up to the same integer for every n below 200.
NTest(n) == (3 * n + 9) \div 10

\* The orders rng.permutation(n) can return: the positions 1..n in some order.
Shuffles(n) == {p \in [1..n -> 1..n] : \A i, j \in 1..n : p[i] = p[j] => i = j}

\* The positions of the test rows and of the training rows under permutation p:
\* the first n_test of p, and the rest.
TestPositions(p, n) == SubSeq(p, 1, NTest(n))

\* A training slice that starts one position early.
TrainPositionsOverlap(p, n) == SubSeq(p, NTest(n), n)

TrainPositions(p, n) == SubSeq(p, NTest(n) + 1, n)

\* _safe_indexing: the rows at the given positions, in that order.
Take(rows, positions) == [k \in DOMAIN positions |-> rows[positions[k]]]

\* rows[:k]: the first k rows, all of them when there are fewer.
Slice(rows, k) == SubSeq(rows, 1, IF Len(rows) < k THEN Len(rows) ELSE k)

TakeFrame(d, positions) == [d EXCEPT !.rows = Take(d.rows, positions)]

\* LogisticRegression(max_iter=1000), not fitted.
NewClassifier ==
    [kind |-> "LogisticRegression", max_iter |-> max_iter, fitted |-> FALSE,
     n_iter |-> 0, positive |-> {}]

NoModel == [kind |-> "unbound"]

\* model.predict on one row of features: the fitted decision function, kept as
\* the set of feature rows it maps to class 1.
Predict(m, v) == IF v \in m.positive THEN 1 ELSE 0

PredictAll(m, d) == [i \in DOMAIN d.rows |-> Predict(m, d.rows[i].v)]

\* A score that counts the mismatches.
AccuracyScoreMismatches(y_true, pred) ==
    [num |-> Cardinality({i \in DOMAIN pred : pred[i] # y_true[i].val}),
     den |-> Len(pred)]

\* accuracy_score(y_true, y_pred): the matches over the number of rows, kept
\* as the fraction num/den.
AccuracyScore(y_true, pred) ==
    [num |-> Cardinality({i \in DOMAIN pred : pred[i] = y_true[i].val}),
     den |-> Len(pred)]

NoScore == [num |-> 0, den |-> 0]

NoSignature == [inputs |-> <<>>, outputs |-> "none"]

-----------------------------------------------------------------------------
(* The notebook.                                                            *)

\* The statements of the five code cells, in the order a top-to-bottom run
\* executes them.
Program ==
    <<"from_config", "Experiment",
      "connect", "read_sql", "close", "dropna", "label", "get_dummies", "drop",
      "X", "y", "train_test_split", "LogisticRegression", "fit", "predict", "accuracy_score",
      "start_run", "log_metric", "infer_signature", "log_model", "end_run",
      "from_config2", "dump", "register">>

Position(s) == CHOOSE i \in DOMAIN Program : Program[i] = s

\* The statement after s, "done" after the last.
Following(s) ==
    IF Position(s) = Len(Program) THEN "done" ELSE Program[Position(s) + 1]

VARIABLES
    pc,          \* the statement that runs next, "done", or "halted"
    failedAt,    \* the statement that raised, "none" while none has
    executed,    \* the statements run so far, in order
    table,       \* the database table
    ws,          \* the workspace handle
    experiment,  \* the experiment handle
    conn,        \* the database connection: "unbound", "open", "closed"
    df,          \* the DataFrame
    X, y,        \* the feature matrix and the label vector
    X_train, X_test, y_train, y_test,
    model,       \* what the name model is bound to
    warnings,    \* the warnings issued
    y_pred,      \* the predictions on the test partition
    accuracy,    \* the accuracy score
    activeRun,   \* whether a tracking run is active
    metrics,     \* the metrics logged to the tracker
    signature,   \* the inferred model signature
    artifacts,   \* the model artifacts logged to the tracker
    files,       \* the files written to disk
    registry,    \* the entries of the model registry
    df_prev,     \* the DataFrame the previous run of cell 2 left
    runs         \* how many times cell 2 has been started

session == <<ws, experiment>>
frames == <<df, X, y, X_train, X_test, y_train, y_test>>
trained == <<model, warnings, y_pred, accuracy>>
tracked == <<activeRun, metrics, signature, artifacts>>
registered == <<files, registry>>
reruns == <<df_prev, runs>>

vars == <<pc, failedAt, executed, table, conn, session, frames, trained, tracked,
          registered, reruns>>

Start(t) ==
    /\ pc = "from_config"
    /\ failedAt = "none"
    /\ executed = <<>>
    /\ table = t
    /\ ws = "unbound"
    /\ experiment = "unbound"
    /\ conn = "unbound"
    /\ df = NoFrame
    /\ X = NoFrame
    /\ y = <<>>
    /\ X_train = NoFrame
    /\ X_test = NoFrame
    /\ y_train = <<>>
    /\ y_test = <<>>
    /\ model = NoModel
    /\ warnings = {}
    /\ y_pred = <<>>
    /\ accuracy = NoScore
    /\ activeRun = FALSE
    /\ metrics = {}
    /\ signature = NoSignature
    /\ artifacts = {}
    /\ files = {}
    /\ registry = {}
    /\ df_prev = NoFrame
    /\ runs = 0

\* The statement s runs to its end: control passes to the next statement.
Return(s) ==
    /\ pc' = Following(s)
    /\ failedAt' = failedAt
    /\ executed' = Append(executed, s)

\* An exception that is swallowed: the run goes on with the next statement.
RaiseAndContinue(s) ==
    /\ pc' = Following(s)
    /\ failedAt' = s
    /\ executed' = Append(executed, s)

\* The statement s raises: nothing catches the exception, the run stops.
Raise(s) ==
    /\ pc' = "halted"
    /\ failedAt' = s
    /\ executed' = Append(executed, s)

\* ---- cell 1 ----

\* ws = Workspace.from_config()
from_config ==
    /\ pc = "from_config"
    /\ \/ Return("from_config") /\ ws' = "Workspace"
       \/ Raise("from_config") /\ ws' = ws
    /\ UNCHANGED <<table, experiment, conn, frames, trained, tracked, registered, reruns>>

\* experiment = Experiment(workspace=ws, name='customer-churn-prediction')
Experiment ==
    /\ pc = "Experiment"
    /\ \/ Return("Experiment") /\ experiment' = "customer-churn-prediction"
       \/ Raise("Experiment") /\ experiment' = experiment
    /\ UNCHANGED <<table, ws, conn, frames, trained, tracked, registered, reruns>>

\* ---- cell 2 ----

\* conn = pyodbc.connect(...)
connect ==
    /\ pc = "connect"
    /\ \/ Return("connect") /\ conn' = "open"
       \/ Raise("connect") /\ conn' = conn
    /\ runs' = runs + 1
    /\ UNCHANGED <<table, session, frames, trained, tracked, registered, df_prev>>

\* df = pd.read_sql(query, conn)
read_sql ==
    /\ pc = "read_sql"
    /\ \/ Return("read_sql") /\ df' = ReadSql(table)
       \/ Raise("read_sql") /\ df' = df
    /\ UNCHANGED <<table, session, conn, X, y, X_train, X_test, y_train, y_test,
                   trained, tracked, registered, reruns>>

\* conn.close()
close ==
    /\ pc = "close"
    /\ Return("close")
    /\ conn' = "closed"
    /\ UNCHANGED <<table, session, frames, trained, tracked, registered, reruns>>

\* df = df.dropna()
dropna ==
    /\ pc = "dropna"
    /\ Return("dropna")
    /\ df' = DropNa(df)
    /\ UNCHANGED <<table, session, conn, X, y, X_train, X_test, y_train, y_test,
                   trained, tracked, registered, reruns>>

\* df['Churn'] = df['Customer_Status'].apply(lambda x: 1 if x == 'Churned' else 0)
\* KeyError when the table has no column Customer_Status.
label ==
    /\ pc = "label"
    /\ IF "Customer_Status" \in Columns(df)
         THEN Return("label") /\ df' = AssignApplied(df, "Churn", "Customer_Status")
         ELSE Raise("label") /\ df' = df
    /\ UNCHANGED <<table, session, conn, X, y, X_train, X_test, y_train, y_test,
                   trained, tracked, registered, reruns>>

\* The orders of the elements of S.
Orderings(S) ==
    {o \in [1..Cardinality(S) -> S] : \A i, j \in DOMAIN o : o[i] = o[j] => i = j}

\* An expansion that takes the categories of a column in no fixed order.
get_dummies_unordered ==
    /\ pc = "get_dummies"
    /\ IF Range(categorical_columns) \subseteq Columns(df)
         THEN /\ Return("get_dummies")
              /\ \E o1 \in Orderings(Range(Levels(df, categorical_columns[1]))),
                    o2 \in Orderings(Range(Levels(df, categorical_columns[2]))) :
                    df' = Encode(df, categorical_columns,
                                 [c \in Range(categorical_columns) |->
                                    IF c = categorical_columns[1] THEN o1 ELSE o2], TRUE)
         ELSE Raise("get_dummies") /\ df' = df
    /\ UNCHANGED <<table, session, conn, X, y, X_train, X_test, y_train, y_test,
                   trained, tracked, registered, reruns>>

\* df = pd.get_dummies(df, columns=categorical_columns, drop_first=True)
\* KeyError when one of the listed columns is not in the frame.
get_dummies ==
    /\ pc = "get_dummies"
    /\ IF Range(categorical_columns) \subseteq Columns(df)
         THEN Return("get_dummies") /\ df' = GetDummies(df, categorical_columns, TRUE)
         ELSE Raise("get_dummies") /\ df' = df
    /\ UNCHANGED <<table, session, conn, X, y, X_train, X_test, y_train, y_test,
                   trained, tracked, registered, reruns>>

\* df = df.drop(columns=['Customer_ID', 'Customer_Status'])
drop ==
    /\ pc = "drop"
    /\ IF {"Customer_ID", "Customer_Status"} \subseteq Columns(df)
         THEN Return("drop") /\ df' = DropColumns(df, {"Customer_ID", "Customer_Status"})
         ELSE Raise("drop") /\ df' = df
    /\ UNCHANGED <<table, session, conn, X, y, X_train, X_test, y_train, y_test,
                   trained, tracked, registered, reruns>>

\* ---- cell 3 ----

\* X = df.drop(columns=['Churn'])
split_X ==
    /\ pc = "X"
    /\ Return("X")
    /\ X' = DropColumns(df, {"Churn"})
    /\ UNCHANGED <<table, session, conn, df, y, X_train, X_test, y_train, y_test,
                   trained, tracked, registered, reruns>>

\* y = df['Churn']
split_y ==
    /\ pc = "y"
    /\ Return("y")
    /\ y' = Column(df, "Churn")
    /\ UNCHANGED <<table, session, conn, df, X, X_train, X_test, y_train, y_test,
                   trained, tracked, registered, reruns>>

\* The four partitions under the permutation p of the positions of the n rows.
Partition(p, n) ==
    /\ X_train' = TakeFrame(X, TrainPositions(p, n))
    /\ X_test' = TakeFrame(X, TestPositions(p, n))
    /\ y_train' = Take(y, TrainPositions(p, n))
    /\ y_test' = Take(y, TestPositions(p, n))

\* X_train, X_test, y_train, y_test =
\*     train_test_split(X, y, test_size=0.3, random_state=42)
\* ValueError when the training partition would be empty.
train_test_split ==
    /\ pc = "train_test_split"
    /\ LET n == Len(X.rows)
       IN IF n - NTest(n) = 0
            THEN Raise("train_test_split")
                 /\ UNCHANGED <<X_train, X_test, y_train, y_test>>
            ELSE Return("train_test_split")
                 /\ \E p \in Shuffles(n) : Partition(p, n)
    /\ UNCHANGED <<table, session, conn, df, X, y, trained, tracked, registered, reruns>>

\* model = LogisticRegression(max_iter=1000)
LogisticRegression ==
    /\ pc = "LogisticRegression"
    /\ Return("LogisticRegression")
    /\ model' = NewClassifier
    /\ UNCHANGED <<table, session, conn, frames, warnings, y_pred, accuracy,
                   tracked, registered, reruns>>

\* A solver whose non-convergence is an error.
SolverStopsOrRaises(it) ==
    IF it >= max_iter
      THEN Raise("fit") /\ warnings' = warnings \cup {"ConvergenceWarning"}
      ELSE Return("fit") /\ warnings' = warnings

\* The solver stops after it iterations: at the iteration bound it reports
\* non-convergence as a ConvergenceWarning, and fit returns all the same.
SolverStops(it) ==
    /\ Return("fit")
    /\ warnings' = IF it >= max_iter THEN warnings \cup {"ConvergenceWarning"} ELSE warnings

\* model.fit(X_train, y_train)
\* ValueError when X_train has no column or y_train holds a single class.
\* Otherwise the solver's result is some decision function on the feature
\* rows, reached before the iteration bound or at it.
fit ==
    /\ pc = "fit"
    /\ IF Columns(X_train) = {} \/ Cardinality({y_train[i].val : i \in DOMAIN y_train}) < 2
         THEN Raise("fit") /\ UNCHANGED <<model, warnings>>
         ELSE \E pos \in SUBSET {X.rows[i].v : i \in DOMAIN X.rows}, it \in {1, max_iter} :
                /\ SolverStops(it)
                /\ model' = [model EXCEPT !.fitted = TRUE, !.n_iter = it, !.positive = pos]
    /\ UNCHANGED <<table, session, conn, frames, y_pred, accuracy, tracked, registered, reruns>>

\* y_pred = model.predict(X_test)
predict ==
    /\ pc = "predict"
    /\ Return("predict")
    /\ y_pred' = PredictAll(model, X_test)
    /\ UNCHANGED <<table, session, conn, frames, model, warnings, accuracy,
                   tracked, registered, reruns>>

\* accuracy = accuracy_score(y_test, y_pred); print(...)
accuracy_score ==
    /\ pc = "accuracy_score"
    /\ Return("accuracy_score")
    /\ accuracy' = AccuracyScore(y_test, y_pred)
    /\ UNCHANGED <<table, session, conn, frames, model, warnings, y_pred,
                   tracked, registered, reruns>>

\* ---- cell 4 ----

\* mlflow.start_run()
start_run ==
    /\ pc = "start_run"
    /\ \/ Return("start_run") /\ activeRun' = TRUE
       \/ Raise("start_run") /\ activeRun' = activeRun
    /\ UNCHANGED <<table, session, conn, frames, trained, metrics, signature, artifacts,
                   registered, reruns>>

\* mlflow.log_metric("accuracy", accuracy)
log_metric ==
    /\ pc = "log_metric"
    /\ \/ Return("log_metric") /\ metrics' = metrics \cup {[key |-> "accuracy", value |-> accuracy]}
       \/ Raise("log_metric") /\ metrics' = metrics
    /\ UNCHANGED <<table, session, conn, frames, trained, activeRun, signature, artifacts,
                   registered, reruns>>

\* A signature step that fits the model again before predicting.
infer_signature_refit ==
    /\ pc = "infer_signature"
    /\ Return("infer_signature")
    /\ signature' = [inputs |-> X_train.columns, outputs |-> "long"]
    /\ \E pos \in SUBSET {X.rows[i].v : i \in DOMAIN X.rows} :
          model' = [model EXCEPT !.positive = pos]
    /\ UNCHANGED <<table, session, conn, frames, warnings, y_pred, accuracy, activeRun,
                   metrics, artifacts, registered, reruns>>

\* signature = infer_signature(X_train, model.predict(X_train))
infer_signature ==
    /\ pc = "infer_signature"
    /\ Return("infer_signature")
    /\ signature' = [inputs |-> X_train.columns, outputs |-> "long"]
    /\ UNCHANGED <<table, session, conn, frames, trained, activeRun, metrics, artifacts,
                   registered, reruns>>

\* mlflow.sklearn.log_model(model, "logistic_regression_model",
\*                          signature=signature, input_example=X_train[:5])
log_model ==
    /\ pc = "log_model"
    /\ \/ /\ Return("log_model")
          /\ artifacts' = artifacts \cup
                {[path |-> "logistic_regression_model", model |-> model,
                  signature |-> signature,
                  input_example |-> Slice(X_train.rows, 5)]}
       \/ Raise("log_model") /\ artifacts' = artifacts
    /\ UNCHANGED <<table, session, conn, frames, trained, activeRun, metrics, signature,
                   registered, reruns>>

\* mlflow.end_run()
end_run ==
    /\ pc = "end_run"
    /\ Return("end_run")
    /\ activeRun' = FALSE
    /\ UNCHANGED <<table, session, conn, frames, trained, metrics, signature, artifacts,
                   registered, reruns>>

\* ---- cell 5 ----

\* ws = Workspace.from_config()
from_config2 ==
    /\ pc = "from_config2"
    /\ \/ Return("from_config2") /\ ws' = "Workspace"
       \/ Raise("from_config2") /\ ws' = ws
    /\ UNCHANGED <<table, experiment, conn, frames, trained, tracked, registered, reruns>>

\* joblib.dump(model, 'logistic_regression_model.pkl')
dump ==
    /\ pc = "dump"
    /\ \/ /\ Return("dump")
          /\ files' = {f \in files : f.path # "logistic_regression_model.pkl"}
                        \cup {[path |-> "logistic_regression_model.pkl", content |-> model]}
       \/ Raise("dump") /\ files' = files
    /\ UNCHANGED <<table, session, conn, frames, trained, tracked, registry, reruns>>

\* model = Model.register(workspace=ws, model_name="customer_churn_model",
\*                        model_path="logistic_regression_model.pkl", description=...)
register ==
    /\ pc = "register"
    /\ \/ /\ \E f \in files :
                /\ f.path = "logistic_regression_model.pkl"
                /\ registry' = registry \cup
                      {[name |-> "customer_churn_model", artifact |-> f.content,
                        description |-> "Logistic Regression model for customer churn prediction"]}
          /\ Return("register")
          /\ model' = [kind |-> "Model", name |-> "customer_churn_model"]
       \/ Raise("register") /\ UNCHANGED <<registry, model>>
    /\ UNCHANGED <<table, session, conn, frames, warnings, y_pred, accuracy, tracked,
                   files, reruns>>

-----------------------------------------------------------------------------
(* The top-to-bottom run, on every table of up to MaxRows rows.             *)

Init ==
    \E cols \in {TableColumns} \cup Lacking, n \in 0..MaxRows :
        \E fs \in [1..n -> SmallRows] : Start(Table(cols, fs))

Cell1 == from_config \/ Experiment

Cell2 == connect \/ read_sql \/ close \/ dropna \/ label \/ get_dummies \/ drop

Cell3 ==
    \/ split_X \/ split_y \/ train_test_split \/ LogisticRegression \/ fit
    \/ predict \/ accuracy_score

Cell4 == start_run \/ log_metric \/ infer_signature \/ log_model \/ end_run

Cell5 == from_config2 \/ dump \/ register

Next == Cell1 \/ Cell2 \/ Cell3 \/ Cell4 \/ Cell5

Spec == Init /\ [][Next]_vars

-----------------------------------------------------------------------------
(* Cells 1 and 2 alone, on the wider tables, with cell 2 run again on the   *)
(* same table.                                                              *)

\* How many times cell 2 is run.
MaxRuns == 2

\* Cell 2 is executed again once it has finished: the session keeps its
\* names, df_prev remembers the frame the finished run left.
rerun_cell2 ==
    /\ pc = Following("drop")
    /\ runs < MaxRuns
    /\ pc' = "connect"
    /\ df_prev' = df
    /\ UNCHANGED <<failedAt, executed, table, conn, session, frames, trained, tracked,
                   registered, runs>>

InitPre ==
    \E n \in 0..MaxRows :
        \/ \E fs \in [1..n -> FullRows] : Start(Table(TableColumns, fs))
        \/ \E cols \in Lacking, fs \in [1..n -> SmallRows] : Start(Table(cols, fs))

NextPre == Cell1 \/ Cell2 \/ rerun_cell2

SpecPre == InitPre /\ [][NextPre]_vars

-----------------------------------------------------------------------------
(* Properties.                                                              *)

\* The statement s has run to its end.
Ran(s) == s \in Range(executed) /\ failedAt # s

Last(q) == q[Len(q)]

IndexOf(rows) == [i \in DOMAIN rows |-> rows[i].idx]

\* The table row that the frame row with index label k was read from.
Source(k) == table.rows[k + 1]

\* The index labels of the table rows without a NULL, in table order.
CompleteLabels ==
    LET all == [i \in DOMAIN table.rows |-> i - 1]
    IN SelectSeq(all, LAMBDA k : \A c \in Range(table.columns) : Source(k)[c] # NULL)

\* C1, as claimed: the connection the loader opened is released on every exit
\* path of the loader, so it is open only while the loader is between connect
\* and close.  The code violates it: read_sql raises and conn.close() is skipped.
C1_ConnectionReleased == conn = "open" => pc \in {"read_sql", "close"}

Effect(s) ==
    CASE s = "read_sql" -> df # NoFrame
      [] s = "fit" -> model.kind = "LogisticRegression" /\ model.fitted
      [] s = "predict" -> y_pred # <<>>
      [] s = "accuracy_score" -> accuracy # NoScore
      [] s = "log_metric" -> metrics # {}
      [] s = "log_model" -> artifacts # {}
      [] s = "dump" -> files # {}
      [] s = "register" -> registry # {}

C3_NonConvergenceHalts ==
    "ConvergenceWarning" \in warnings =>
        /\ pc = "halted"
        /\ failedAt = "fit"
        /\ y_pred = <<>>
        /\ accuracy = NoScore
        /\ metrics = {}
        /\ registry = {}

\* C3, amended: a solver that stops at its iteration bound is reported as a
\* warning and fit returns the model; the run goes on, and a run that reaches
\* its end has logged the accuracy and registered that non-converged model.
C3_NonConvergenceWarns ==
    /\ "ConvergenceWarning" \in warnings =>
          /\ Ran("fit")
          /\ pc = "done" =>
                /\ metrics = {[key |-> "accuracy", value |-> accuracy]}
                /\ registry # {}
                /\ \A e \in registry : e.artifact.fitted /\ e.artifact.n_iter = max_iter
    /\ (model.kind = "LogisticRegression" /\ model.n_iter >= max_iter) =>
          "ConvergenceWarning" \in warnings

C3_Witness ==
    /\ pc = "done"
    /\ "ConvergenceWarning" \in warnings
    /\ metrics # {}
    /\ registry # {}

\* C4: once the label column exists, the frame holds exactly the table rows
\* without a NULL, and the label of each is 1 if its Customer_Status is
\* 'Churned' and 0 otherwise.
C4_LabelIffChurned ==
    "Churn" \in Columns(df) =>
        /\ IndexOf(df.rows) = CompleteLabels
        /\ \A i \in DOMAIN df.rows :
              /\ df.rows[i].v["Churn"] \in {0, 1}
              /\ df.rows[i].v["Churn"] = 1 <=>
                    Source(df.rows[i].idx)["Customer_Status"] = "Churned"

C4_Witness ==
    /\ pc = "get_dummies"
    /\ Len(df.rows) = 2
    /\ Len(table.rows) = 3
    /\ df.rows[1].v["Churn"] = 1
    /\ df.rows[2].v["Customer_Status"] = "Joined"
    /\ df.rows[2].v["Churn"] = 0

\* C5: after the split the two partitions are disjoint, together they are
\* the rows of the frame, their sizes sum to its size, and the features and
\* the labels of a partition are the same rows in the same order.
C5_SplitPartitions ==
    Ran("train_test_split") =>
        LET tr == IndexOf(X_train.rows)
            te == IndexOf(X_test.rows)
            at(k) == CHOOSE i \in DOMAIN df.rows : df.rows[i].idx = k
        IN /\ Range(tr) \cap Range(te) = {}
           /\ Range(tr) \cup Range(te) = Range(IndexOf(df.rows))
           /\ Len(tr) + Len(te) = Len(df.rows)
           /\ IndexOf(y_train) = tr
           /\ IndexOf(y_test) = te
           /\ Len(X_train.rows) = Len(y_train)
           /\ Len(X_test.rows) = Len(y_test)
           /\ \A i \in DOMAIN X_train.rows :
                 /\ y_train[i].val = df.rows[at(tr[i])].v["Churn"]
                 /\ \A c \in Columns(X_train) : X_train.rows[i].v[c] = df.rows[at(tr[i])].v[c]
           /\ \A i \in DOMAIN X_test.rows :
                 /\ y_test[i].val = df.rows[at(te[i])].v["Churn"]
                 /\ \A c \in Columns(X_test) : X_test.rows[i].v[c] = df.rows[at(te[i])].v[c]

C5_Witness ==
    /\ pc = "LogisticRegression"
    /\ Len(X_train.rows) = 2
    /\ Len(X_test.rows) = 1
    /\ X_test.rows[1].idx = 1

\* C6: the accuracy is the number of test rows whose prediction equals the
\* row's true label, over the number of test rows, a value in [0,1]; the
\* metric logged as "accuracy" is that value.
C6_AccuracyIsFraction ==
    Ran("accuracy_score") =>
        LET correct ==
              {i \in DOMAIN X_test.rows :
                 y_pred[i] = IF Source(X_test.rows[i].idx)["Customer_Status"] = "Churned"
                               THEN 1 ELSE 0}
        IN /\ accuracy.den = Len(X_test.rows)
           /\ accuracy.num = Cardinality(correct)
           /\ accuracy.den > 0
           /\ 0 <= accuracy.num
           /\ accuracy.num <= accuracy.den
           /\ \A m \in metrics : m.key = "accuracy" /\ m.value = accuracy
           /\ Ran("log_metric") => metrics # {}

C6_Witness ==
    /\ Ran("log_metric")
    /\ accuracy = [num |-> 1, den |-> 1]
    /\ \E m \in metrics : m.value = accuracy

\* C7: after the expansion no listed categorical column is left, the first
\* (smallest) category present in a column has no indicator column, and
\* every other category present has one; a category not present has none.
C7_DropFirst ==
    pc \in {"drop", Following("drop")} =>
        \A c \in Range(categorical_columns) :
            LET present == {Source(CompleteLabels[i])[c] : i \in DOMAIN CompleteLabels}
                first == {v \in present : \A w \in present : Rank(v) <= Rank(w)}
            IN /\ c \notin Columns(df)
               /\ \A v \in Range(ValueOrder) :
                     (c \o "_" \o v) \in Columns(df) <=> v \in present \ first

C7_Witness ==
    /\ pc = "drop"
    /\ "Gender_Male" \in Columns(df)
    /\ "Contract_One Year" \in Columns(df)
    /\ "Contract_Two Year" \in Columns(df)
    /\ "Contract_Month-to-Month" \notin Columns(df)

C9_RunScoped ==
    activeRun => pc \in {"log_metric", "infer_signature", "log_model", "end_run"}

\* The fitted classifier, wherever it is held.
IsFitted(m) == m.kind = "LogisticRegression" /\ m.fitted

\* The classifier that produced the test predictions, the one logged to the
\* tracker, the one in logistic_regression_model.pkl and the one registered
\* are one and the same fitted classifier, and the name model is bound to
\* the registry entry only once the file exists.
C10_SameModel ==
    LET held == {a.model : a \in artifacts} \cup {f.content : f \in files}
                  \cup {e.artifact : e \in registry}
                  \cup (IF IsFitted(model) THEN {model} ELSE {})
    IN /\ Cardinality(held) <= 1
       /\ \A m \in held : IsFitted(m) /\ (Ran("predict") => y_pred = PredictAll(m, X_test))
       /\ model.kind = "Model" => files # {}
       /\ Ran("fit") => held # {}

\* C10: the classifier held anywhere is always the one fitted classifier, and
\* a step changes what model names only by leaving it alone or, in register,
\* by rebinding it once logistic_regression_model.pkl holds the classifier.
C10_ModelImmutable ==
    /\ []C10_SameModel
    /\ [][IsFitted(model) =>
            \/ model' = model
            \/ pc = "register" /\ model'.kind = "Model" /\ (\E f \in files : f.content = model)]_vars

C10_Witness ==
    /\ pc = "done"
    /\ model.kind = "Model"
    /\ artifacts # {}
    /\ \E e \in registry : IsFitted(e.artifact) /\ e.artifact.positive # {}

====
